---- MODULE Spec2Model ----
(***************************************************************************)
(* Model of Assets/AiModels/Spleeter/inspect.py:                           *)
(*                                                                         *)
(*   1  import onnxruntime                                                 *)
(*   3  model = onnxruntime.InferenceSession("vocals.onnx", providers=..)  *)
(*   4  input_shape = model.get_inputs()[0].shape                          *)
(*   6  print(input_shape)                                                 *)
(*                                                                         *)
(* One process of the script is a run.  The state is the file the script   *)
(* opens, the position of the interpreter in the script, the two module    *)
(* globals, the live session object, the standard streams, the pending     *)
(* exception and the exit status.  Finished runs are logged in outcomes.   *)
(***************************************************************************)
EXTENDS Integers, Sequences, FiniteSets, TLC

\* ---------------------------------------------------------------- bounds
\* Most dimensions an artifact declares, summed over all its inputs.
MaxDims == 3
\* Most inputs an artifact declares.
MaxInputs == 2
\* Most times the script is run on the same file.
MaxRuns == 2

\* ------------------------------------------------- the artifact on disk
\* A dimension of a declared input: a fixed size (dim_value), a symbolic
\* name (dim_param), or neither.
DimValue(v) == [kind |-> "dim_value", dim_value |-> v, dim_param |-> ""]
DimParam(p) == [kind |-> "dim_param", dim_value |-> 0, dim_param |-> p]
DimUnset == [kind |-> "unset", dim_value |-> 0, dim_param |-> ""]

Dims == {DimValue(2), DimParam("N"), DimUnset}

InputNames == {"input", "aux"}

\* The declared shapes of rank at most n.
ShapesUpTo(n) == UNION {[1..r -> Dims] : r \in 0..n}

\* An input descriptor (NodeArg): a name and a declared shape.
NodeArgsUpTo(n) == [name : InputNames, dims : ShapesUpTo(n)]

\* The lists of exactly k descriptors that declare at most d dimensions.
RECURSIVE InputLists(_, _)
InputLists(k, d) ==
    IF k = 0 THEN {<<>>}
    ELSE UNION {{<<na>> \o rest : rest \in InputLists(k - 1, d - Len(na.dims))} :
                na \in NodeArgsUpTo(d)}

\* What can be at the path "vocals.onnx": nothing, bytes that are no model,
\* or a model with its declared inputs.
MissingFile == [kind |-> "missing", inputs |-> <<>>]
InvalidFile == [kind |-> "invalid", inputs |-> <<>>]
ValidFile(ins) == [kind |-> "valid", inputs |-> ins]

Files ==
    {MissingFile, InvalidFile}
        \cup {ValidFile(ins) : ins \in UNION {InputLists(k, MaxDims) : k \in 0..MaxInputs}}

\* ------------------------------------------------------- Python values
PyInt(v) == [type |-> "int", int |-> v, str |-> ""]
PyStr(s) == [type |-> "str", int |-> 0, str |-> s]
PyNone == [type |-> "NoneType", int |-> 0, str |-> ""]

\* repr() of an int, a str or None.
repr(o) ==
    CASE o.type = "int" -> ToString(o.int)
      [] o.type = "str" -> "'" \o o.str \o "'"
      [] OTHER -> "None"

\* ", ".join of the reprs of a list's elements.
RECURSIVE JoinReprs(_)
JoinReprs(list) ==
    IF Len(list) = 0 THEN ""
    ELSE IF Len(list) = 1 THEN repr(list[1])
    ELSE repr(list[1]) \o ", " \o JoinReprs(Tail(list))

\* str() of a list, as print() renders it.
str(list) == "[" \o JoinReprs(list) \o "]"

\* ------------------------------------------------------ the onnxruntime calls
NoException == ""

Unbound == [bound |-> FALSE, value |-> <<>>]
Bound(v) == [bound |-> TRUE, value |-> v]

\* Faulty variant: a path with no file loads as a model that declares nothing.
InferenceSession_MissingAsEmpty(f) ==
    CASE f.kind = "invalid" -> [raised |-> "InvalidProtobuf", session |-> <<>>]
      [] OTHER -> [raised |-> NoException, session |-> f.inputs]

\* Faulty variant: every failure to load is reported as a missing file.
InferenceSession_OneKind(f) ==
    CASE f.kind \in {"missing", "invalid"} -> [raised |-> "NoSuchFile", session |-> <<>>]
      [] OTHER -> [raised |-> NoException, session |-> f.inputs]

\* onnxruntime.InferenceSession(path, providers): raises NoSuchFile for a
\* path with no file, InvalidProtobuf for a file that is no model, and
\* otherwise returns a session holding the model's metadata in memory.
InferenceSession(f) ==
    CASE f.kind = "missing" -> [raised |-> "NoSuchFile", session |-> <<>>]
      [] f.kind = "invalid" -> [raised |-> "InvalidProtobuf", session |-> <<>>]
      [] OTHER -> [raised |-> NoException, session |-> f.inputs]

\* model.get_inputs(): the declared inputs, in declaration order.
get_inputs(session) == session

\* Faulty variant: an empty list yields an input with an empty shape.
Index0_Default(list) ==
    IF Len(list) = 0
    THEN [raised |-> NoException, item |-> [name |-> "", dims |-> <<>>]]
    ELSE [raised |-> NoException, item |-> list[1]]

\* Faulty variant: list[-1], the input declared last.
Index0_Last(list) ==
    IF Len(list) = 0
    THEN [raised |-> "IndexError", item |-> [name |-> "", dims |-> <<>>]]
    ELSE [raised |-> NoException, item |-> list[Len(list)]]

\* list[0]: IndexError on an empty list, the first element otherwise.
Index0(list) ==
    IF Len(list) = 0
    THEN [raised |-> "IndexError", item |-> [name |-> "", dims |-> <<>>]]
    ELSE [raised |-> NoException, item |-> list[1]]

\* NodeArg.shape: a list with an int for a fixed dimension, a str for a
\* symbolic one and None for one that is neither.
DimToPy(d) ==
    CASE d.kind = "dim_value" -> PyInt(d.dim_value)
      [] d.kind = "dim_param" -> PyStr(d.dim_param)
      [] OTHER -> PyNone

\* Faulty variant: the dimensions in reverse order.
shape_Reversed(na) == [i \in 1..Len(na.dims) |-> DimToPy(na.dims[Len(na.dims) + 1 - i])]

shape(na) == [i \in 1..Len(na.dims) |-> DimToPy(na.dims[i])]

\* Faulty variant: the exception is swallowed and the process exits with 0.
ExitStatus_Always0(e) == 0

\* The exit status of the interpreter: 1 after an uncaught exception.
ExitStatus(e) == IF e = NoException THEN 0 ELSE 1

\* ------------------------------------------------------------- the state
VARIABLES
    file,         \* what is at the path "vocals.onnx"
    pc,           \* "line3", "line4", "line6", "finalize", "exited"
    model,        \* the module global model
    input_shape,  \* the module global input_shape
    sessions,     \* the live InferenceSession objects of the process
    stdout,       \* the lines written to standard output by this run
    stderr,       \* the lines written to standard error by this run
    exc,          \* the exception that is propagating, if any
    status,       \* <<>> while the process runs, <<exit status>> after
    outcomes      \* what each finished run left behind

vars == <<file, pc, model, input_shape, sessions, stdout, stderr, exc, status, outcomes>>

Init ==
    /\ file \in Files
    /\ pc = "line3"
    /\ model = Unbound
    /\ input_shape = Unbound
    /\ sessions = {}
    /\ stdout = <<>>
    /\ stderr = <<>>
    /\ exc = NoException
    /\ status = <<>>
    /\ outcomes = <<>>

\* Faulty variant: a successful load leaves the file truncated.
Load_Truncating ==
    /\ pc = "line3"
    /\ LET r == InferenceSession(file) IN
        IF r.raised # NoException
        THEN /\ exc' = r.raised
             /\ pc' = "finalize"
             /\ UNCHANGED <<model, sessions, file>>
        ELSE /\ model' = Bound(r.session)
             /\ sessions' = sessions \cup {r.session}
             /\ pc' = "line4"
             /\ file' = InvalidFile
             /\ UNCHANGED exc
    /\ UNCHANGED <<input_shape, stdout, stderr, status, outcomes>>

\* Faulty variant: a failed load is tried again.
Load_Retrying ==
    /\ pc = "line3"
    /\ LET r == InferenceSession(file) IN
        IF r.raised # NoException
        THEN /\ exc' = r.raised
             /\ pc' = "line3"
             /\ UNCHANGED <<model, sessions>>
        ELSE /\ model' = Bound(r.session)
             /\ sessions' = sessions \cup {r.session}
             /\ pc' = "line4"
             /\ UNCHANGED exc
    /\ UNCHANGED <<file, input_shape, stdout, stderr, status, outcomes>>

\* line 3: model = onnxruntime.InferenceSession("vocals.onnx", ...)
Load ==
    /\ pc = "line3"
    /\ LET r == InferenceSession(file) IN
        IF r.raised # NoException
        THEN /\ exc' = r.raised
             /\ pc' = "finalize"
             /\ UNCHANGED <<model, sessions>>
        ELSE /\ model' = Bound(r.session)
             /\ sessions' = sessions \cup {r.session}
             /\ pc' = "line4"
             /\ UNCHANGED exc
    /\ UNCHANGED <<file, input_shape, stdout, stderr, status, outcomes>>

\* Faulty variant: the session is dropped as soon as the shape is extracted.
Query_Releasing ==
    /\ pc = "line4"
    /\ LET r == Index0(get_inputs(model.value)) IN
        IF r.raised # NoException
        THEN /\ exc' = r.raised
             /\ pc' = "finalize"
             /\ UNCHANGED <<input_shape, model, sessions>>
        ELSE /\ input_shape' = Bound(shape(r.item))
             /\ pc' = "line6"
             /\ model' = Unbound
             /\ sessions' = {}
             /\ UNCHANGED exc
    /\ UNCHANGED <<file, stdout, stderr, status, outcomes>>

\* line 4: input_shape = model.get_inputs()[0].shape
Query ==
    /\ pc = "line4"
    /\ LET r == Index0(get_inputs(model.value)) IN
        IF r.raised # NoException
        THEN /\ exc' = r.raised
             /\ pc' = "finalize"
             /\ UNCHANGED input_shape
        ELSE /\ input_shape' = Bound(shape(r.item))
             /\ pc' = "line6"
             /\ UNCHANGED exc
    /\ UNCHANGED <<file, model, sessions, stdout, stderr, status, outcomes>>

\* Faulty variant: the line is written twice.
print_Twice ==
    /\ pc = "line6"
    /\ stdout' = Append(Append(stdout, str(input_shape.value)), str(input_shape.value))
    /\ pc' = "finalize"
    /\ UNCHANGED <<file, model, input_shape, sessions, stderr, exc, status, outcomes>>

\* line 6: print(input_shape)
print ==
    /\ pc = "line6"
    /\ stdout' = Append(stdout, str(input_shape.value))
    /\ pc' = "finalize"
    /\ UNCHANGED <<file, model, input_shape, sessions, stderr, exc, status, outcomes>>

\* The end of the script or an uncaught exception: the interpreter reports
\* the exception on standard error, drops the module globals and with them
\* the session, and the process exits.
Exit ==
    /\ pc = "finalize"
    /\ stderr' = IF exc = NoException THEN stderr ELSE Append(stderr, exc)
    /\ model' = Unbound
    /\ input_shape' = Unbound
    /\ sessions' = {}
    /\ status' = <<ExitStatus(exc)>>
    /\ pc' = "exited"
    /\ outcomes' = Append(outcomes,
            [stdout |-> stdout, stderr |-> stderr', exc |-> exc, status |-> status'[1],
             read |-> file])
    /\ UNCHANGED <<file, stdout, exc>>

\* The script is run again: a new process, the same file system.
Start ==
    /\ pc = "exited"
    /\ Len(outcomes) < MaxRuns
    /\ pc' = "line3"
    /\ model' = Unbound
    /\ input_shape' = Unbound
    /\ sessions' = {}
    /\ stdout' = <<>>
    /\ stderr' = <<>>
    /\ exc' = NoException
    /\ status' = <<>>
    /\ UNCHANGED <<file, outcomes>>

Next == Load \/ Query \/ print \/ Exit \/ Start

Spec == Init /\ [][Next]_vars

\* A started process runs to its end; nothing makes anyone run it again.
FairSpec == Spec /\ WF_vars(Load) /\ WF_vars(Query) /\ WF_vars(print) /\ WF_vars(Exit)

\* ------------------------------------------------------- reading a run
\* The artifact is a model that declares at least one input.
HasFirstInput == file.kind = "valid" /\ Len(file.inputs) > 0

\* The declared shape of the first input, as it stands in the artifact.
FirstDims == file.inputs[1].dims

\* The run has passed line 6 without an exception.
Printed == pc \in {"finalize", "exited"} /\ exc = NoException

\* The run has raised.
Failed == pc \in {"finalize", "exited"} /\ exc # NoException

\* The error kinds of the specification, for the exceptions of the code.
\* Indexing an empty list raises the language's own out-of-bounds error,
\* which is none of the named kinds.
ErrorKind(e) ==
    CASE e = "NoSuchFile" -> "ArtifactNotFound"
      [] e = "InvalidProtobuf" -> "ArtifactFormatError"
      [] OTHER -> e

\* How one declared dimension is expected on the output line.  With
\* namesShown a dynamic dimension that has a symbolic name shows as the
\* quoted name; without it every dynamic dimension shows as None.
Shown(d, namesShown) ==
    IF d.kind = "dim_value" THEN ToString(d.dim_value)
    ELSE IF d.kind = "dim_param" /\ namesShown THEN "'" \o d.dim_param \o "'"
    ELSE "None"

\* The first n dimensions, in order, separated by a comma and a blank.
RECURSIVE Items(_, _, _)
Items(dims, n, namesShown) ==
    IF n = 0 THEN ""
    ELSE IF n = 1 THEN Shown(dims[1], namesShown)
    ELSE Items(dims, n - 1, namesShown) \o ", " \o Shown(dims[n], namesShown)

ExpectedLine(dims, namesShown) == "[" \o Items(dims, Len(dims), namesShown) \o "]"

\* ------------------------------------------------------------------ C1
\* C1 as stated: for a valid artifact whose first input has shape S, the
\* run prints exactly S, every dynamic dimension rendered as None.
C1_Original ==
    (HasFirstInput /\ Printed) => stdout = <<ExpectedLine(FirstDims, FALSE)>>

\* C1 amended: for a valid artifact whose first input has shape S, the run
\* prints exactly one line holding S in list notation, same length and
\* order: a fixed dimension as its decimal integer, a dynamic dimension
\* without a symbolic name as None, and a dynamic dimension declared with a
\* symbolic name as that name in single quotes.
C1_PrintsShape ==
    (HasFirstInput /\ Printed) => stdout = <<ExpectedLine(FirstDims, TRUE)>>

C1_Witness ==
    /\ pc = "exited"
    /\ HasFirstInput
    /\ FirstDims = <<DimUnset, DimValue(2), DimParam("N")>>
    /\ stdout = <<"[None, 2, 'N']">>

C3_Original ==
    (file.kind = "valid" /\ Len(file.inputs) = 0 /\ pc = "exited") =>
        /\ ErrorKind(exc) = "NoInputsDeclared"
        /\ stdout = <<>>

\* C3 amended: for a valid artifact that declares no input, the run fails
\* with the out-of-bounds IndexError of indexing the empty input list (not
\* with a named NoInputsDeclared error), and prints nothing.
C3_NoInputs ==
    (file.kind = "valid" /\ Len(file.inputs) = 0) =>
        /\ stdout = <<>>
        /\ pc # "line6"
        /\ pc \in {"finalize", "exited"} => exc = "IndexError"

C3_Witness ==
    /\ file = ValidFile(<<>>)
    /\ pc = "exited"
    /\ exc = "IndexError"
    /\ stdout = <<>>

\* ------------------------------------------------------------------ C4
\* The error kind the first failing step gives, "" when no step fails:
\* open, then parse, then select the first input.
KindByFirstFailingStep(third) ==
    CASE file.kind = "missing" -> "ArtifactNotFound"
      [] file.kind = "invalid" -> "ArtifactFormatError"
      [] file.kind = "valid" /\ Len(file.inputs) = 0 -> third
      [] OTHER -> ""

\* C4 as stated: a file that is no model fails with ArtifactFormatError, and
\* every failing run ends in exactly one of ArtifactNotFound,
\* ArtifactFormatError and NoInputsDeclared, the one of its first failing step.
C4_Original ==
    pc = "exited" =>
        /\ file.kind = "invalid" => ErrorKind(exc) = "ArtifactFormatError"
        /\ exc # NoException =>
            /\ ErrorKind(exc) \in {"ArtifactNotFound", "ArtifactFormatError", "NoInputsDeclared"}
            /\ ErrorKind(exc) = KindByFirstFailingStep("NoInputsDeclared")

\* C4 amended: a file that is no model fails with ArtifactFormatError, and
\* every failing run ends in exactly one of ArtifactNotFound,
\* ArtifactFormatError and the out-of-bounds IndexError, the one of its first
\* failing step (open, parse, select the first input); a run fails exactly
\* when one of the three steps does.
C4_ErrorKinds ==
    pc \in {"finalize", "exited"} =>
        /\ file.kind = "invalid" => ErrorKind(exc) = "ArtifactFormatError"
        /\ exc # NoException =>
            ErrorKind(exc) \in {"ArtifactNotFound", "ArtifactFormatError", "IndexError"}
        /\ ErrorKind(exc) = KindByFirstFailingStep("IndexError")

C4_Witness ==
    /\ file.kind = "invalid"
    /\ pc = "exited"
    /\ exc = "InvalidProtobuf"
    /\ stdout = <<>>

\* ------------------------------------------------------------------ C5
\* C5: two runs on the same file leave the same output, the same error and
\* the same exit status, and the file the second run reads is the file the
\* first run read.
C5_Idempotent ==
    \A i, j \in 1..Len(outcomes) :
        /\ outcomes[i].stdout = outcomes[j].stdout
        /\ outcomes[i].exc = outcomes[j].exc
        /\ outcomes[i].status = outcomes[j].status
        /\ outcomes[i].read = outcomes[j].read

C5_Witness ==
    /\ Len(outcomes) = 2
    /\ outcomes[1].stdout = <<"[None, 2]">>
    /\ outcomes[2].stdout = <<"[None, 2]">>

\* ------------------------------------------------------------------ C6
\* C6: the exit status is 0 exactly when the shape line was printed; a run
\* that raised (no file, no model, no input) exits with a status that is not 0.
C6_ExitStatus ==
    pc = "exited" =>
        /\ Len(status) = 1
        /\ status[1] = 0 <=> Len(stdout) = 1
        /\ exc # NoException => status[1] # 0
        /\ (file.kind # "valid" \/ Len(file.inputs) = 0) => status[1] # 0

C6_Witness ==
    /\ pc = "exited"
    /\ exc = "InvalidProtobuf"
    /\ status = <<1>>
    /\ Len(outcomes) = 1
    /\ stdout = <<>>

\* ------------------------------------------------------------------ C7
\* C7: no step changes the file, and a run that exits with status 0 has
\* written exactly one line to standard output and nothing to standard error.
C7_Frame ==
    [][/\ file' = file
       /\ (pc' = "exited" /\ status' = <<0>>) => (Len(stdout') = 1 /\ stderr' = <<>>)]_vars

C7_Witness ==
    /\ pc = "exited"
    /\ status = <<0>>
    /\ Len(stdout) = 1
    /\ Len(file.inputs) = 2

\* ------------------------------------------------------------------ C8
\* C8 as stated: the session is released right after the shape has been
\* extracted: no session is alive when the shape is printed, nor once the
\* run has raised.
C8_Original ==
    /\ pc = "line6" => sessions = {}
    /\ Failed => sessions = {}

\* C8 amended: the session is acquired at load and is held until the
\* process exits: it is still held when the shape is printed and while an
\* IndexError raised by the query propagates, and the exit of the
\* interpreter is what releases it.
C8_HeldUntilExit ==
    /\ Cardinality(sessions) <= 1
    /\ pc \in {"line4", "line6"} => sessions # {}
    /\ pc = "finalize" => (sessions # {} <=> file.kind = "valid")
    /\ pc \in {"line3", "exited"} => sessions = {}
    /\ sessions # {} <=> model.bound

C8_Witness ==
    /\ pc = "line6"
    /\ sessions # {}
    /\ input_shape.bound

\* ------------------------------------------------------------------ C9
\* C9: when the artifact declares two or more inputs, the line printed is
\* the shape of the input declared first; it depends neither on the other
\* inputs nor on any name.
C9_FirstInput ==
    (file.kind = "valid" /\ Len(file.inputs) >= 2 /\ pc \in {"finalize", "exited"}) =>
        /\ exc = NoException
        /\ stdout = <<ExpectedLine(file.inputs[1].dims, TRUE)>>

C9_Witness ==
    /\ pc = "exited"
    /\ Len(file.inputs) = 2
    /\ file.inputs[1].dims = <<DimValue(2)>>
    /\ file.inputs[2].dims = <<DimUnset, DimUnset>>
    /\ file.inputs[1].name = "aux"
    /\ stdout = <<"[2]">>

\* ----------------------------------------------------------------- C10
\* The run has ended having printed, or having failed.
EndedPrinted == pc = "exited" /\ exc = NoException /\ Len(stdout) = 1 /\ status = <<0>>
EndedFailed == pc = "exited" /\ exc # NoException /\ stdout = <<>> /\ status = <<1>>

\* The order of the steps of one run; the last disjunct is a new run.
LinearStep ==
    \/ pc = "line3" /\ pc' \in {"line4", "finalize"}
    \/ pc = "line4" /\ pc' \in {"line6", "finalize"}
    \/ pc = "line6" /\ pc' = "finalize"
    \/ pc = "finalize" /\ pc' = "exited"
    \/ pc = "exited" /\ pc' = "line3" /\ exc' = NoException /\ stdout' = <<>>

\* C10: a run is load, query, print in that order and ends either printed or
\* failed; line 6 is reached only with the model loaded and the shape
\* extracted; an exception ends the run with nothing printed and no step
\* retried; and every run ends.
C10_RunToCompletion ==
    /\ [](pc = "exited" => (EndedPrinted /\ ~EndedFailed) \/ (EndedFailed /\ ~EndedPrinted))
    /\ [](pc = "line6" => model.bound /\ input_shape.bound /\ exc = NoException)
    /\ [](exc # NoException => pc \in {"finalize", "exited"} /\ stdout = <<>>)
    /\ [][LinearStep]_vars
    /\ [][exc # NoException => exc' \in {exc, NoException}]_vars
    /\ (pc # "exited") ~> (pc = "exited")

C10_Witness ==
    /\ EndedFailed
    /\ exc = "IndexError"
    /\ Len(outcomes) = 2
    /\ outcomes[1].stdout = <<>>

====
